---- MODULE Spec2Model ----
(***************************************************************************)
(* A model of the Peanut link library (src/unnamed/part_000): the link     *)
(* codec (getLinkFromParams / getParamsFromLink), key derivation and the   *)
(* address-commitment signature, the deposit-index extraction, and the     *)
(* createLink / claimLink operations running against the escrow contract.  *)
(*                                                                         *)
(* JavaScript values are kept with their type: a value is a record         *)
(* [t, n, s] where t is the type tag, n the number (numbers and bigints)   *)
(* and s the characters (strings).  A string is a sequence of characters.  *)
(* Hashes, keys and signatures are symbolic terms: keccak256 and the       *)
(* signature scheme are injective constructors.                            *)
(***************************************************************************)
EXTENDS Integers, Sequences, FiniteSets

VARIABLES
    deposits,   \* escrow state: contract address -> sequence of deposit records
    cr,         \* createLink invocations: creator -> local variables and position
    cl,         \* claimLink invocations: claimer -> local variables and position
    observed,   \* withdraw transactions visible to an observer of the chain
    codec,      \* the codec round trip: inputs, encoded link, decoded parameters
    parser      \* getDepositIdx on its own: a receipt and the index read from it

vars == <<deposits, cr, cl, observed, codec, parser>>

(***************************************************************************)
(* Bounds of the model.                                                    *)
(***************************************************************************)
NumCreators == 2
NumClaimers == 2
MaxCalls == 3
MaxFieldLen == 2
MaxIndex == 11

(***************************************************************************)
(* JavaScript values.                                                      *)
(***************************************************************************)
Num(n) == [t |-> "number", n |-> n, s |-> <<>>]
Str(s) == [t |-> "string", n |-> 0, s |-> s]
Null == [t |-> "null", n |-> 0, s |-> <<>>]
Undefined == [t |-> "undefined", n |-> 0, s |-> <<>>]
NaN == [t |-> "NaN", n |-> 0, s |-> <<>>]

DigitChars == <<"0", "1", "2", "3", "4", "5", "6", "7", "8", "9">>

IsDigit(c) == \E d \in 1..10 : DigitChars[d] = c

DigitVal(c) == (CHOOSE d \in 1..10 : DigitChars[d] = c) - 1

RECURSIVE NatToStr(_)
\* Number.prototype.toString / BigInt.prototype.toString in base 10
NatToStr(n) ==
    IF n < 10 THEN <<DigitChars[n + 1]>>
    ELSE NatToStr(n \div 10) \o <<DigitChars[(n % 10) + 1]>>

\* the string a value becomes when concatenated to a string with +
JsString(v) ==
    CASE v.t = "number" -> NatToStr(v.n)
      [] v.t = "string" -> v.s
      [] v.t = "null" -> <<"n", "u", "l", "l">>
      [] v.t = "NaN" -> <<"N", "a", "N">>
      [] OTHER -> <<"u", "n", "d", "e", "f", "i", "n", "e", "d">>

RECURSIVE DigitsVal(_)
DigitsVal(s) ==
    IF s = <<>> THEN 0
    ELSE 10 * DigitsVal(SubSeq(s, 1, Len(s) - 1)) + DigitVal(s[Len(s)])

RECURSIVE SkipSpaces(_)
SkipSpaces(s) ==
    IF s # <<>> /\ Head(s) = " " THEN SkipSpaces(Tail(s)) ELSE s

RECURSIVE DigitPrefix(_)
DigitPrefix(s) ==
    IF s # <<>> /\ IsDigit(Head(s)) THEN <<Head(s)>> \o DigitPrefix(Tail(s))
    ELSE <<>>

\* parseInt(string): leading white space is skipped, the longest prefix of
\* digits is read, and what follows it is ignored; NaN when there is no digit
parseInt(s) ==
    LET d == DigitPrefix(SkipSpaces(s))
    IN IF d = <<>> THEN NaN ELSE Num(DigitsVal(d))

(***************************************************************************)
(* The link codec.                                                         *)
(***************************************************************************)
BaseUrl == <<"https://peanut.to/claim">>

\* new URL(link) accepts an absolute URL only: the link starts with a scheme
IsUrl(link) == link # <<>> /\ Head(link) = BaseUrl[1]

RECURSIVE TrimRight(_)
TrimRight(s) ==
    IF s # <<>> /\ s[Len(s)] = " " THEN TrimRight(SubSeq(s, 1, Len(s) - 1))
    ELSE s

\* the position of the first c in s, 0 when there is none
IndexOf(s, c) ==
    LET at == {k \in 1..Len(s) : s[k] = c}
    IN IF at = {} THEN 0 ELSE CHOOSE k \in at : \A j \in at : k <= j

\* URL.search: the input without its leading and trailing spaces, from the
\* first "?" up to the fragment ("#"), the "?" left out
UrlSearch(link) ==
    LET u == TrimRight(SkipSpaces(link))
        h == IndexOf(u, "#")
        noFrag == IF h = 0 THEN u ELSE SubSeq(u, 1, h - 1)
        q == IndexOf(noFrag, "?")
    IN IF q = 0 THEN <<>> ELSE SubSeq(noFrag, q + 1, Len(noFrag))

RECURSIVE SplitAmp(_)
\* the search string cut at every "&"
SplitAmp(s) ==
    LET a == IndexOf(s, "&")
    IN IF a = 0 THEN <<s>>
       ELSE <<SubSeq(s, 1, a - 1)>> \o SplitAmp(SubSeq(s, a + 1, Len(s)))

\* application/x-www-form-urlencoded decoding of a name or value: "+" is a space
FormDecode(s) == [k \in 1..Len(s) |-> IF s[k] = "+" THEN " " ELSE s[k]]

\* one name=value pair, cut at the first "="
ParsePair(piece) ==
    LET e == IndexOf(piece, "=")
    IN IF e = 0 THEN [name |-> FormDecode(piece), value |-> <<>>]
       ELSE [name |-> FormDecode(SubSeq(piece, 1, e - 1)),
             value |-> FormDecode(SubSeq(piece, e + 1, Len(piece)))]

\* new URLSearchParams(search): the list of pairs, empty pieces skipped
SearchParams(search) ==
    LET pieces == SplitAmp(search)
        kept == SelectSeq(pieces, LAMBDA x : x # <<>>)
    IN [k \in 1..Len(kept) |-> ParsePair(kept[k])]

\* URLSearchParams.get(name): the first value under the name, null when absent
ParamGet(params, name) ==
    LET at == {k \in 1..Len(params) : params[k].name = name}
    IN IF at = {} THEN Null
       ELSE Str(params[CHOOSE k \in at : \A j \in at : k <= j].value)

\* getParamsFromLink with the deposit index read from the wrong parameter
getParamsFromLinkWrongKey(link) ==
    LET params == CHOOSE ps \in {SearchParams(UrlSearch(link))} : TRUE
    IN [chain |-> ParamGet(params, <<"c">>),
        contractVersion |-> ParamGet(params, <<"v">>),
        depositIdx |-> ParamGet(params, <<"p">>),
        password |-> ParamGet(params, <<"p">>)]

getParamsFromLink(link) ==
    LET params == CHOOSE ps \in {SearchParams(UrlSearch(link))} : TRUE
    IN [chain |-> ParamGet(params, <<"c">>),
        contractVersion |-> ParamGet(params, <<"v">>),
        depositIdx |-> ParamGet(params, <<"i">>),
        password |-> ParamGet(params, <<"p">>)]

getLinkFromParams(chain, contractVersion, depositIdx, password) ==
    BaseUrl \o <<"?", "c", "=">> \o JsString(chain)
            \o <<"&", "v", "=">> \o JsString(contractVersion)
            \o <<"&", "i", "=">> \o JsString(depositIdx)
            \o <<"&", "p", "=">> \o JsString(password)

CONTRACT_VERSION == Str(<<"v", "3">>)

(***************************************************************************)
(* Addresses, hashes, keys and signatures as symbolic terms.               *)
(***************************************************************************)
Wallet(w) == [kind |-> "wallet", id |-> w]
Derived(secret) == [kind |-> "derived", id |-> secret]
NoAddr == [kind |-> "none", id |-> <<>>]

\* keccak256(utf8(string)) as private key, and the wallet address of that key;
\* toUtf8Bytes throws on a value that is not a string
generateKeysFromString(string) ==
    IF string.t = "string"
    THEN [ok |-> TRUE, address |-> Derived(string.s), privateKey |-> string.s]
    ELSE [ok |-> FALSE, address |-> NoAddr, privateKey |-> <<>>]

\* solidityPackedKeccak256(["address"], [address]): the hash of the address alone
solidityHashAddress(address) == [prefix |-> 0, addr |-> address]

\* solidityHashBytesEIP191 without the prefix
solidityHashBytesNoPrefix(bytes) == bytes

\* ethers.hashMessage(bytes): the hash of the EIP-191 prefix followed by the bytes
solidityHashBytesEIP191(bytes) == [prefix |-> bytes.prefix + 1, addr |-> bytes.addr]

\* Wallet.signMessage(message): a signature by the key over hashMessage(message)
signMessage(privateKey, message) ==
    [key |-> privateKey, digest |-> [prefix |-> message.prefix + 1, addr |-> message.addr]]

\* signAddress signing a constant instead of the hash of the address
signAddressUnbound(string, privateKey) ==
    [key |-> privateKey, digest |-> [prefix |-> 1, addr |-> [kind |-> "wallet", id |-> <<"0">>]]]

signAddress(string, privateKey) ==
    LET stringHash == [prefix |-> 0, addr |-> string]
    IN signMessage(privateKey, stringHash)

\* the address whose key signed the digest: the signer's address when the
\* signature is over this digest, and an unrelated address otherwise
Recover(digest, signature) ==
    IF signature.digest = digest THEN Derived(signature.key) ELSE NoAddr

(***************************************************************************)
(* The contract registry (data.js) and getContract.                        *)
(***************************************************************************)
GoerliChainId == 5
PolygonChainId == 137

ContractAt(chain, version) == [chain |-> chain, version |-> version]
NoContract == [chain |-> 0, version |-> <<>>]

\* PEANUT_CONTRACTS_BY_CHAIN_IDS: the versions deployed on each chain
PEANUT_CONTRACTS_BY_CHAIN_IDS ==
    [c \in {GoerliChainId, PolygonChainId} |->
        IF c = GoerliChainId THEN {<<"v", "1">>, <<"v", "3">>} ELSE {<<"v", "3">>}]

Contracts ==
    UNION {{ContractAt(c, v) : v \in PEANUT_CONTRACTS_BY_CHAIN_IDS[c]} :
           c \in DOMAIN PEANUT_CONTRACTS_BY_CHAIN_IDS}

\* the table entry of (key, version), absent when the chain or the version is not there
Registered(key, version) ==
    /\ key.t = "number"
    /\ key.n \in DOMAIN PEANUT_CONTRACTS_BY_CHAIN_IDS
    /\ version \in PEANUT_CONTRACTS_BY_CHAIN_IDS[key.n]

getContract(chainId) ==
    LET id == IF chainId.t = "string" THEN parseInt(chainId.s) ELSE chainId
    IN IF Registered(id, CONTRACT_VERSION.s)
       THEN [ok |-> TRUE, addr |-> ContractAt(id.n, CONTRACT_VERSION.s)]
       ELSE [ok |-> FALSE, addr |-> NoContract]

(***************************************************************************)
(* The escrow contract, reached through the contract object: a list of     *)
(* deposit records per contract, indexed from 0.                           *)
(***************************************************************************)
DepositRecord(pubKey20, sender) ==
    [pubKey20 |-> pubKey20, sender |-> sender, claimed |-> FALSE,
     recipient |-> NoAddr, paid |-> 0]

\* makeDeposit at inclusion: the record is appended; its index is its position
EscrowMakeDeposit(ds, pubKey20, sender) == Append(ds, DepositRecord(pubKey20, sender))

\* withdrawDeposit at inclusion accepts when the deposit exists and is unclaimed,
\* the hash is the prefixed hash of the recipient's address hash, and the
\* signature over that hash recovers to the address the deposit is locked to
EscrowAccepts(ds, idx, recipient, hash, signature) ==
    /\ idx < Len(ds)
    /\ ~ds[idx + 1].claimed
    /\ hash = [prefix |-> 1, addr |-> recipient]
    /\ Recover(hash, signature) = ds[idx + 1].pubKey20

EscrowWithdraw(ds, idx, recipient) ==
    [ds EXCEPT ![idx + 1] = [@ EXCEPT !.claimed = TRUE, !.recipient = recipient,
                                      !.paid = @ + 1]]

\* the logs of a confirmed deposit: the ERC-20 transfer of a token deposit,
\* the escrow's deposit event, and on Polygon the fee log the chain appends;
\* only the escrow's own events are parsed and carry args
DepositLogs(chain, linkType, idx) ==
    (IF linkType = 1 THEN <<[event |-> "Transfer", args |-> <<>>]>> ELSE <<>>)
    \o <<[event |-> "DepositEvent", args |-> <<Num(idx)>>]>>
    \o (IF chain = PolygonChainId
        THEN <<[event |-> "LogFeeTransfer", args |-> <<>>]>> ELSE <<>>)

NoReceipt == [status |-> 0, chainId |-> Undefined, logs |-> <<>>]

\* the receipt of a confirmed deposit carries the id of the chain it is from
DepositReceipt(chain, linkType, idx) ==
    [status |-> 1, chainId |-> Num(chain), logs |-> DepositLogs(chain, linkType, idx)]

Thrown == [t |-> "throw", n |-> 0, s |-> <<>>]

\* chainId == 137 with JavaScript's loose equality
IsPolygon(chainId) ==
    \/ chainId.t = "number" /\ chainId.n = PolygonChainId
    \/ chainId.t = "string" /\ chainId.s = NatToStr(PolygonChainId)

\* getDepositIdx without the Polygon case: always the last log
getDepositIdxLast(txReceipt) ==
    LET logs == txReceipt.logs
        pick == Len(logs)
    IN IF pick < 1 \/ logs[pick].args = <<>> THEN Thrown ELSE logs[pick].args[1]

\* reading args[0] of a log that is absent or has no args throws
getDepositIdx(txReceipt) ==
    LET logs == txReceipt.logs
        pick == IF IsPolygon(txReceipt.chainId) THEN Len(logs) - 1 ELSE Len(logs)
    IN IF pick < 1 \/ logs[pick].args = <<>> THEN Thrown ELSE logs[pick].args[1]

\* the uint256 the contract object encodes an index argument to: a number, or
\* a non-empty string of digits; anything else is refused before sending
IsBigNumberish(v) ==
    \/ v.t = "number"
    \/ v.t = "string" /\ v.s # <<>> /\ \A k \in 1..Len(v.s) : IsDigit(v.s[k])

ToBigInt(v) == IF v.t = "number" THEN v.n ELSE DigitsVal(v.s)

(***************************************************************************)
(* Invocations and their inputs.                                           *)
(***************************************************************************)
Creators == 1..NumCreators
Claimers == 1..NumClaimers

ChainInputs == {Num(GoerliChainId), Num(PolygonChainId), Num(9)}
LinkTypes == {0, 1}
\* the protocol runs deposit tokens: their receipts hold the token's Transfer log
\* before the escrow's event (receipts of both link types are read in SpecParser)
CreateLinkTypes == {1}
PasswordInputs == {Null, Str(<<"a">>)}
RandomStrings == {<<"x">>}
SignerOf(q) == Wallet(<<"S", DigitChars[q + 1]>>)
Recipient == Wallet(<<"R">>)
RecipientInputs == {NoAddr, Recipient}
Observer == Wallet(<<"M">>)
ZeroAddress == Wallet(<<"0">>)
AttackRecipients == {Observer, ZeroAddress, Recipient}

CrIdle ==
    [pc |-> "idle", chainId |-> Null, linkType |-> 0, password |-> Null,
     contract |-> NoContract, tx |-> "none",
     txReceipt |-> NoReceipt, link |-> <<>>, err |-> "none"]

NoArgs == [idx |-> Null, recipient |-> NoAddr, hash |-> [prefix |-> 0, addr |-> NoAddr],
           signature |-> [key |-> <<>>, digest |-> [prefix |-> 0, addr |-> NoAddr]]]

ClIdle ==
    [pc |-> "idle", link |-> <<>>, requested |-> NoAddr, contract |-> NoContract,
     args |-> NoArgs, tx |-> "none", txReceipt |-> NoReceipt, err |-> "none"]

\* an invocation that threw: its local variables are gone, the error is what is left
Failed(rec, err) == [rec EXCEPT !.pc = "failed", !.err = err]

Started == Cardinality({p \in Creators : cr[p].pc # "idle"})
           + Cardinality({q \in Claimers : cl[q].pc # "idle"})

\* links an attacker or a careless user may hand to claimLink
CraftedLinks ==
    {BaseUrl \o <<"?", "c", "=", "5", "&", "v", "=", "v", "1", "&", "i", "=", "0", "&", "p", "=", "a">>,
     BaseUrl \o <<"?", "c", "=", "5", "&", "v", "=", "v", "3", "&", "i", "=", "0">>,
     BaseUrl \o <<"?", "c", "=", "5", "&", "i", "=", "0", "&", "p", "=", "a">>,
     BaseUrl \o <<"?", "c", "=", "5", "&", "v", "=", "v", "3", "&", "p", "=", "a">>,
     BaseUrl \o <<"?", "c", "=", "9", "&", "v", "=", "v", "3", "&", "i", "=", "0", "&", "p", "=", "a">>,
     <<"c", "=", "5", "&", "v", "=", "v", "3", "&", "i", "=", "0", "&", "p", "=", "a">>}

LinkInputs == CraftedLinks \cup {cr[p].link : p \in {c \in Creators : cr[c].pc = "done"}}

NoDecoded == [chain |-> Null, contractVersion |-> Null, depositIdx |-> Null,
              password |-> Null]
NoCodec == [pc |-> "off", chain |-> Null, version |-> Null, index |-> Null,
            secret |-> Null, link |-> <<>>, decoded |-> NoDecoded]

NoParser == [pc |-> "off", txReceipt |-> NoReceipt, depositIdx |-> Null]

Init ==
    /\ deposits = [c \in Contracts |-> <<>>]
    /\ cr = [p \in Creators |-> CrIdle]
    /\ cl = [q \in Claimers |-> ClIdle]
    /\ observed = {}
    /\ codec = NoCodec
    /\ parser = NoParser

(***************************************************************************)
(* createLink.                                                             *)
(***************************************************************************)
\* lines 208-233: the defaults, the keys, the contract, and the makeDeposit call
CreateCall(p) ==
    /\ cr[p].pc = "idle"
    /\ IF p = 1 THEN TRUE ELSE cr[p - 1].pc # "idle"
    /\ Started < MaxCalls
    /\ \E chainId \in ChainInputs, linkType \in CreateLinkTypes, pw \in PasswordInputs,
          rnd \in RandomStrings, rejected \in BOOLEAN :
          LET password == IF pw = Null THEN Str(rnd) ELSE pw
              contract == getContract(chainId)
              c0 == [cr[p] EXCEPT !.chainId = chainId, !.linkType = linkType,
                                  !.password = password]
          IN cr' = [cr EXCEPT ![p] =
                 IF ~contract.ok
                 THEN Failed(CrIdle, "TypeError")
                 ELSE IF rejected
                 THEN Failed(CrIdle, "TransactionRejected")
                 ELSE [c0 EXCEPT !.pc = "awaiting", !.tx = "pending",
                                 !.contract = contract.addr]]
    /\ UNCHANGED <<deposits, cl, observed, codec, parser>>

\* createLink going on after a reverted deposit, with index 0 in the link
CreateWaitSwallow(p) ==
    /\ cr[p].pc = "awaiting"
    /\ \E reverted \in BOOLEAN :
          LET c == cr[p].contract
              keys == generateKeysFromString(cr[p].password)
              txReceipt == DepositReceipt(c.chain, cr[p].linkType, Len(deposits[c]))
              depositIdx == IF reverted THEN Num(0) ELSE getDepositIdx(txReceipt)
          IN /\ deposits' = IF reverted THEN deposits
                            ELSE [deposits EXCEPT ![c] = EscrowMakeDeposit(@, keys.address, p)]
             /\ cr' = [cr EXCEPT ![p] =
                    [@ EXCEPT !.pc = "done", !.tx = IF reverted THEN "reverted" ELSE "mined",
                              !.txReceipt = IF reverted THEN NoReceipt ELSE txReceipt,
                              !.link = getLinkFromParams(cr[p].chainId, CONTRACT_VERSION,
                                                         depositIdx, cr[p].password)]]
    /\ UNCHANGED <<cl, observed, codec, parser>>

\* createLink taking the index from the order of the calls, not from the receipt
CreateWaitCallOrder(p) ==
    /\ cr[p].pc = "awaiting"
    /\ \E reverted \in BOOLEAN :
          IF reverted
          THEN /\ cr' = [cr EXCEPT ![p] = Failed(CrIdle, "TransactionReverted")]
               /\ UNCHANGED deposits
          ELSE LET c == cr[p].contract
                   keys == generateKeysFromString(cr[p].password)
                   txReceipt == DepositReceipt(c.chain, cr[p].linkType, Len(deposits[c]))
               IN /\ deposits' = [deposits EXCEPT ![c] =
                          EscrowMakeDeposit(@, keys.address, p)]
                  /\ cr' = [cr EXCEPT ![p] =
                         [@ EXCEPT !.pc = "done", !.tx = "mined", !.txReceipt = txReceipt,
                                   !.link = getLinkFromParams(cr[p].chainId,
                                       CONTRACT_VERSION, Num(p - 1), cr[p].password)]]
    /\ UNCHANGED <<cl, observed, codec, parser>>

\* lines 236-247: tx.wait() completes when the chain has included the deposit
\* (the escrow appends the record and emits its event) and throws when the
\* transaction reverted; then the index is read from the receipt and the link
\* is built
CreateWait(p) ==
    /\ cr[p].pc = "awaiting"
    /\ \E reverted \in BOOLEAN :
          IF reverted
          THEN /\ cr' = [cr EXCEPT ![p] = Failed(CrIdle, "TransactionReverted")]
               /\ UNCHANGED deposits
          ELSE LET c == cr[p].contract
                   keys == generateKeysFromString(cr[p].password)
                   txReceipt == DepositReceipt(c.chain, cr[p].linkType, Len(deposits[c]))
                   depositIdx == getDepositIdx(txReceipt)
               IN /\ deposits' = [deposits EXCEPT ![c] =
                          EscrowMakeDeposit(@, keys.address, p)]
                  /\ cr' = [cr EXCEPT ![p] =
                         IF depositIdx = Thrown
                         THEN Failed(CrIdle, "TypeError")
                         ELSE [@ EXCEPT !.pc = "done", !.tx = "mined",
                                        !.txReceipt = txReceipt,
                                        !.link = getLinkFromParams(cr[p].chainId,
                                            CONTRACT_VERSION, depositIdx, cr[p].password)]]
    /\ UNCHANGED <<cl, observed, codec, parser>>

(***************************************************************************)
(* claimLink.                                                              *)
(***************************************************************************)
\* lines 253-272: decoding, the keys, the contract, the proof, and the
\* withdrawDeposit call; every throw on the way ends the invocation
ClaimCall(q) ==
    /\ cl[q].pc = "idle"
    /\ IF q = 1 THEN TRUE ELSE cl[q - 1].pc # "idle"
    /\ Started < MaxCalls
    /\ \E link \in LinkInputs, requested \in RecipientInputs :
       \E params \in {getParamsFromLink(link)} :
          LET
              chainId == params.chain
              depositIdx == params.depositIdx
              password == params.password
              recipient == IF requested = NoAddr THEN SignerOf(q) ELSE requested
              keys == generateKeysFromString(password)
              contract == getContract(chainId)
              addressHash == solidityHashAddress(recipient)
              addressHashEIP191 == solidityHashBytesEIP191(addressHash)
              signature == signAddress(recipient, keys.privateKey)
              args == [idx |-> depositIdx, recipient |-> recipient,
                       hash |-> addressHashEIP191, signature |-> signature]
              c0 == [ClIdle EXCEPT !.link = link]
              c1 == [c0 EXCEPT !.requested = requested]
              sent == /\ IsUrl(link) /\ keys.ok /\ contract.ok
                      /\ IsBigNumberish(depositIdx)
          IN /\ cl' = [cl EXCEPT ![q] =
                    IF ~IsUrl(link) \/ ~keys.ok \/ ~contract.ok
                    THEN Failed(c0, "TypeError")
                    ELSE IF ~IsBigNumberish(depositIdx)
                    THEN Failed(c0, "InvalidArgument")
                    ELSE [c1 EXCEPT !.pc = "awaiting", !.tx = "pending",
                                    !.contract = contract.addr, !.args = args]]
             /\ observed' = IF sent
                            THEN observed \cup {[contract |-> contract.addr,
                                                 idx |-> ToBigInt(depositIdx),
                                                 recipient |-> recipient,
                                                 signature |-> signature]}
                            ELSE observed
    /\ UNCHANGED <<deposits, cr, codec, parser>>

\* claimLink returning a receipt although the withdraw reverted
ClaimWaitSwallow(q) ==
    /\ cl[q].pc = "awaiting"
    /\ LET c == cl[q].contract
           a == cl[q].args
           idx == ToBigInt(a.idx)
           receipt == [status |-> 1, chainId |-> Num(c.chain), logs |-> <<>>]
       IN /\ deposits' =
                 IF EscrowAccepts(deposits[c], idx, a.recipient, a.hash, a.signature)
                 THEN [deposits EXCEPT ![c] = EscrowWithdraw(@, idx, a.recipient)]
                 ELSE deposits
          /\ cl' = [cl EXCEPT ![q] = [ClIdle EXCEPT !.pc = "done", !.txReceipt = receipt]]
    /\ UNCHANGED <<cr, observed, codec, parser>>

\* lines 273-275: tx.wait() completes when the chain has included the withdraw
\* (the escrow releases the deposit to the recipient) and throws when the
\* escrow reverted it; the receipt is what claimLink returns
ClaimWait(q) ==
    /\ cl[q].pc = "awaiting"
    /\ LET c == cl[q].contract
           a == cl[q].args
           idx == ToBigInt(a.idx)
       IN IF EscrowAccepts(deposits[c], idx, a.recipient, a.hash, a.signature)
          THEN /\ deposits' = [deposits EXCEPT ![c] = EscrowWithdraw(@, idx, a.recipient)]
               /\ cl' = [cl EXCEPT ![q] =
                      [ClIdle EXCEPT !.pc = "done",
                                     !.txReceipt = [status |-> 1, chainId |-> Num(c.chain),
                                                    logs |-> <<>>]]]
          ELSE /\ cl' = [cl EXCEPT ![q] =
                      Failed([ClIdle EXCEPT !.link = cl[q].link], "TransactionReverted")]
               /\ UNCHANGED deposits
    /\ UNCHANGED <<cr, observed, codec, parser>>

\* an observer of a submitted claim, who does not hold the secret, sends the
\* observed signature itself: for the same or for another recipient, with the
\* observed hash or the hash of the new recipient.  The escrow releases the
\* deposit when it accepts; a refused replay changes nothing
Replay ==
    /\ \E o \in observed : \E r \in AttackRecipients \cup {o.recipient}, own \in BOOLEAN :
          LET hash == [prefix |-> 1, addr |-> IF own THEN r ELSE o.recipient]
          IN /\ EscrowAccepts(deposits[o.contract], o.idx, r, hash, o.signature)
             /\ deposits' = [deposits EXCEPT ![o.contract] = EscrowWithdraw(@, o.idx, r)]
    /\ UNCHANGED <<cr, cl, observed, codec, parser>>

Next ==
    \/ \E p \in Creators : CreateCall(p)
    \/ \E p \in Creators : CreateWait(p)
    \/ \E q \in Claimers : ClaimCall(q)
    \/ \E q \in Claimers : ClaimWait(q)
    \/ Replay

Spec == Init /\ [][Next]_vars

(***************************************************************************)
(* The link codec on its own: a parameter tuple is encoded, then decoded.  *)
(***************************************************************************)
\* characters of a secret: two that URLs leave alone, and the ones a URL or a
\* query string treats specially
SecretChars == {"a", "1", "&", "#", "+", "=", " "}

RECURSIVE StringsUpTo(_, _)
StringsUpTo(chars, n) ==
    IF n = 0 THEN {<<>>}
    ELSE LET shorter == StringsUpTo(chars, n - 1)
         IN shorter \cup {Append(t, c) : t \in shorter, c \in chars}

CodecChains == {Num(GoerliChainId), Num(PolygonChainId), Str(<<"5">>)}
CodecVersions == {Str(<<"v", "3">>), Str(<<"v", "1">>)}

InitCodec ==
    /\ deposits = [c \in Contracts |-> <<>>]
    /\ cr = [p \in Creators |-> CrIdle]
    /\ cl = [q \in Claimers |-> ClIdle]
    /\ observed = {}
    /\ \E chain \in CodecChains, version \in CodecVersions, index \in 0..MaxIndex,
          secret \in StringsUpTo(SecretChars, MaxFieldLen) :
          codec = [NoCodec EXCEPT !.pc = "input", !.chain = chain, !.version = version,
                                  !.index = Num(index), !.secret = Str(secret)]
    /\ parser = NoParser

Encode ==
    /\ codec.pc = "input"
    /\ codec' = [codec EXCEPT !.pc = "encoded",
                              !.link = getLinkFromParams(codec.chain, codec.version,
                                                         codec.index, codec.secret)]
    /\ UNCHANGED <<deposits, cr, cl, observed, parser>>

Decode ==
    /\ codec.pc = "encoded"
    /\ codec' = [codec EXCEPT !.pc = "decoded", !.decoded = getParamsFromLink(codec.link)]
    /\ UNCHANGED <<deposits, cr, cl, observed, parser>>

NextCodec == Encode \/ Decode

SpecCodec == InitCodec /\ [][NextCodec]_vars

(***************************************************************************)
(* getDepositIdx on its own: the receipt of a confirmed deposit is read.   *)
(***************************************************************************)
\* the chains a receipt may be from: the two of the registry and another one
ReceiptChains == {GoerliChainId, PolygonChainId, 1}

InitParser ==
    /\ deposits = [c \in Contracts |-> <<>>]
    /\ cr = [p \in Creators |-> CrIdle]
    /\ cl = [q \in Claimers |-> ClIdle]
    /\ observed = {}
    /\ codec = NoCodec
    /\ \E chain \in ReceiptChains, linkType \in LinkTypes, idx \in 0..MaxIndex :
          parser = [NoParser EXCEPT !.pc = "receipt",
                                    !.txReceipt = DepositReceipt(chain, linkType, idx)]

ReadIndex ==
    /\ parser.pc = "receipt"
    /\ parser' = [parser EXCEPT !.pc = "read",
                                !.depositIdx = getDepositIdx(parser.txReceipt)]
    /\ UNCHANGED <<deposits, cr, cl, observed, codec>>

NextParser == ReadIndex

SpecParser == InitParser /\ [][NextParser]_vars

(***************************************************************************)
(* C1.  createLink encodes the link only after the confirmed deposit.      *)
(***************************************************************************)
\* C1: a creator holds a link only when its deposit was submitted and confirmed
\* (tx.wait returned a successful receipt), and the index in the link is the
\* one read from that receipt; a createLink that failed, at the deposit call or
\* at the confirmation, holds no link.
C1_LinkOnlyAfterConfirmation ==
    \A p \in Creators :
        /\ cr[p].link # <<>> =>
               /\ cr[p].pc = "done"
               /\ cr[p].tx = "mined"
               /\ cr[p].txReceipt.status = 1
               /\ cr[p].txReceipt.logs # <<>>
               /\ getParamsFromLink(cr[p].link).depositIdx =
                      Str(JsString(getDepositIdx(cr[p].txReceipt)))
        /\ cr[p].pc = "done" => cr[p].link # <<>>
        /\ cr[p].pc \in {"idle", "awaiting", "failed"} => cr[p].link = <<>>

C1_Witness ==
    \E p1, p2 \in Creators :
        /\ cr[p1].pc = "done" /\ cr[p1].link # <<>> /\ cr[p1].tx = "mined"
        /\ cr[p2].pc = "failed" /\ cr[p2].err = "TransactionReverted"

(***************************************************************************)
(* C2.  A claimed deposit stays claimed; later claims revert.              *)
(***************************************************************************)
DepositAt(c, idx) == deposits[c][idx + 1]
Exists(c, idx) == idx < Len(deposits[c])

\* C2: in every step, a deposit that is claimed keeps its record unchanged (the
\* flag, the recipient, and the single payout), every deposit is paid out once
\* if claimed and never otherwise, and a claimLink whose withdraw reaches the
\* escrow when the deposit is already claimed ends failed with the reverted
\* transaction's error, never done.
C2_ClaimedOnce ==
    [][/\ \A c \in Contracts : \A i \in 1..Len(deposits[c]) :
              deposits[c][i].claimed => deposits'[c][i] = deposits[c][i]
       /\ \A c \in Contracts : \A i \in 1..Len(deposits'[c]) :
              deposits'[c][i].paid = IF deposits'[c][i].claimed THEN 1 ELSE 0
       /\ \A q \in Claimers :
              (/\ cl[q].pc = "awaiting" /\ cl'[q].pc # "awaiting"
               /\ Exists(cl[q].contract, ToBigInt(cl[q].args.idx))
               /\ DepositAt(cl[q].contract, ToBigInt(cl[q].args.idx)).claimed)
              => /\ cl'[q].pc = "failed"
                 /\ cl'[q].err = "TransactionReverted"]_vars

\* a link was created, claimed once, and a second claimLink of the same link
\* has ended with the revert
C2_Witness ==
    \E p \in Creators, q1, q2 \in Claimers :
        /\ cr[p].pc = "done"
        /\ cl[q1].pc = "done"
        /\ cl[q2].pc = "failed" /\ cl[q2].err = "TransactionReverted"
        /\ cl[q2].link = cr[p].link
        /\ \A c \in Contracts : Len(deposits[c]) = IF c = cr[p].contract THEN 1 ELSE 0
        /\ DepositAt(cr[p].contract, 0).claimed
        /\ DepositAt(cr[p].contract, 0).paid = 1

(***************************************************************************)
(* C3.  A claim signature is bound to its recipient.                       *)
(***************************************************************************)
AllRecipients == AttackRecipients \cup {SignerOf(q) : q \in Claimers}
AnyHashes == {[prefix |-> k, addr |-> a] : k \in {0, 1}, a \in AllRecipients}

\* C3: the signature of a submitted claim for recipient R is accepted by no
\* deposit of the escrow as authorization to withdraw to another recipient,
\* whatever hash is sent with it; and every deposit the escrow has released
\* went to the recipient named in a claim signed with the deposit's key.
C3_SignatureBoundToRecipient ==
    /\ \A o \in observed : \A r \in AllRecipients \ {o.recipient} : \A h \in AnyHashes :
           \A i \in 1..Len(deposits[o.contract]) :
               ~EscrowAccepts(deposits[o.contract], i - 1, r, h, o.signature)
    /\ \A c \in Contracts : \A i \in 1..Len(deposits[c]) :
           deposits[c][i].claimed =>
               \E o \in observed :
                   /\ o.contract = c /\ o.idx = i - 1
                   /\ o.recipient = deposits[c][i].recipient
                   /\ Derived(o.signature.key) = deposits[c][i].pubKey20

\* a submitted claim whose signature the escrow would accept for its recipient
\* is visible while the deposit is still unclaimed
C3_Witness ==
    \E o \in observed :
        /\ Exists(o.contract, o.idx)
        /\ EscrowAccepts(deposits[o.contract], o.idx, o.recipient,
                         [prefix |-> 1, addr |-> o.recipient], o.signature)
        /\ o.recipient = Recipient

(***************************************************************************)
(* C4.  Concurrent invocations on different links do not interact.         *)
(***************************************************************************)
LinkTarget(link) ==
    LET prm == getParamsFromLink(link)
    IN [contract |-> getContract(prm.chain).addr,
        idx |-> parseInt(prm.depositIdx.s).n,
        address |-> generateKeysFromString(prm.password).address]

C5_VersionSelectsContract ==
    \A q \in Claimers : cl[q].pc = "awaiting" =>
        \E prm \in {getParamsFromLink(cl[q].link)} :
            cl[q].contract = ContractAt(parseInt(prm.chain.s).n, prm.contractVersion.s)

(***************************************************************************)
(* C6.  Claiming with a link that has no p parameter.                      *)
(***************************************************************************)
\* C6: a claimLink given a link without the p parameter (which decodes, with a
\* null secret) ends with the outcome VerificationMismatch.
C6_MissingSecretIsMismatch ==
    \A q \in Claimers :
        (/\ cl[q].pc \in {"done", "failed"}
         /\ IsUrl(cl[q].link)
         /\ getParamsFromLink(cl[q].link).password = Null)
        => cl[q].err = "VerificationMismatch"

(***************************************************************************)
(* C7.  Locally detectable errors and the network.                         *)
(***************************************************************************)
Malformed(link) ==
    \/ ~IsUrl(link)
    \/ \E prm \in {getParamsFromLink(link)} :
          \/ prm.chain = Null
          \/ ~IsBigNumberish(prm.chain)
          \/ ~IsBigNumberish(prm.depositIdx)
          \/ ~Registered(parseInt(prm.chain.s), prm.contractVersion.s)

\* C7: a claimLink given a malformed link (not a URL; chain, version or deposit
\* index missing or malformed; chain or version unknown) has sent nothing to
\* the contract, and a createLink has sent its deposit only for a known chain.
C7_LocalErrorsStayLocal ==
    /\ \A q \in Claimers :
           Malformed(cl[q].link) =>
               /\ cl[q].pc # "awaiting"
               /\ cl[q].err # "TransactionReverted"
    /\ \A p \in Creators :
           cr[p].tx # "none" => Registered(cr[p].chainId, CONTRACT_VERSION.s)

(***************************************************************************)
(* C9.  The deposit index read from a receipt.                             *)
(***************************************************************************)
\* the first argument of the escrow's deposit event in a receipt
EventIndex(txReceipt) ==
    LET logs == txReceipt.logs
        at == CHOOSE k \in 1..Len(logs) : logs[k].event = "DepositEvent"
    IN logs[at].args[1]

C10_ArgsAsStated ==
    \A q \in Claimers : cl[q].pc = "awaiting" =>
        \E prm \in {getParamsFromLink(cl[q].link)} :
            /\ cl[q].args.idx = prm.depositIdx
            /\ cl[q].args.recipient =
                   IF cl[q].requested = NoAddr THEN SignerOf(q) ELSE cl[q].requested
            /\ cl[q].args.hash = [prefix |-> 0, addr |-> cl[q].args.recipient]
            /\ cl[q].args.signature =
                   [key |-> prm.password.s,
                    digest |-> [prefix |-> 1, addr |-> cl[q].args.recipient]]

\* C10 as amended: the hash argument is the prefixed (personal-message) hash of
\* the recipient's address hash, the very digest the signature is over; the
\* index, the recipient and the signing key are as stated.
C10_ArgsPrefixedHash ==
    \A q \in Claimers : cl[q].pc = "awaiting" =>
        \E prm \in {getParamsFromLink(cl[q].link)} :
            /\ cl[q].args.idx = prm.depositIdx
            /\ cl[q].args.recipient =
                   IF cl[q].requested = NoAddr THEN SignerOf(q) ELSE cl[q].requested
            /\ cl[q].args.hash = [prefix |-> 1, addr |-> cl[q].args.recipient]
            /\ cl[q].args.signature =
                   [key |-> prm.password.s, digest |-> cl[q].args.hash]

C10_Witness ==
    \E q1, q2 \in Claimers, p \in Creators :
        /\ cl[q1].pc = "awaiting" /\ cl[q1].requested = NoAddr
        /\ cl[q1].args.recipient = SignerOf(q1)
        /\ cl[q1].link = cr[p].link
        /\ cl[q2].pc = "awaiting" /\ cl[q2].requested = Recipient
        /\ cl[q2].args.hash = [prefix |-> 1, addr |-> Recipient]

(***************************************************************************)
(* C8.  Round trip of the codec.                                           *)
(***************************************************************************)
\* the characters of RFC 3986's reserved set that the model has, and its
\* unreserved ones (letters and digits)
ReservedChars == {"&", "#", "+", "=", "?"}
UnreservedChars == {"a", "v"} \cup {DigitChars[d] : d \in 1..10}

NoReserved(v) == \A k \in 1..Len(JsString(v)) : JsString(v)[k] \notin ReservedChars
OnlyUnreserved(v) == \A k \in 1..Len(JsString(v)) : JsString(v)[k] \in UnreservedChars

\* C8 as stated: for every tuple whose fields hold no reserved URL character,
\* decoding the encoded link gives back the tuple itself, the deposit index
\* being the integer that was encoded.
C8_RoundTripAsStated ==
    (/\ codec.pc = "decoded"
     /\ NoReserved(codec.chain) /\ NoReserved(codec.version) /\ NoReserved(codec.secret))
    => codec.decoded = [chain |-> codec.chain, contractVersion |-> codec.version,
                        depositIdx |-> codec.index, password |-> codec.secret]

\* C8 as amended: for every tuple whose fields are made of unreserved URL
\* characters, decoding the encoded link gives the four fields as strings: the
\* string forms of chain and version, the decimal digits of the deposit index
\* (which parseInt reads back as the integer that was encoded), and the secret.
C8_RoundTripStrings ==
    (/\ codec.pc = "decoded"
     /\ OnlyUnreserved(codec.chain) /\ OnlyUnreserved(codec.version)
     /\ OnlyUnreserved(codec.secret))
    => /\ codec.decoded.chain = Str(JsString(codec.chain))
       /\ codec.decoded.contractVersion = Str(codec.version.s)
       /\ codec.decoded.depositIdx = Str(NatToStr(codec.index.n))
       /\ parseInt(codec.decoded.depositIdx.s) = codec.index
       /\ codec.decoded.password = codec.secret

C8_Witness ==
    /\ codec.pc = "decoded"
    /\ OnlyUnreserved(codec.chain) /\ OnlyUnreserved(codec.version)
    /\ OnlyUnreserved(codec.secret)
    /\ codec.index.n >= 10
    /\ Len(codec.secret.s) = MaxFieldLen
    /\ codec.decoded.depositIdx = Str(NatToStr(codec.index.n))
    /\ codec.decoded.password = codec.secret

====
